---- MODULE Spec2Model ----
(***************************************************************************)
(* A model of GeoJsonToGpx (src/src/index.ts): the conversion of a GeoJSON *)
(* Feature or FeatureCollection into a GPX 1.1 document tree.              *)
(*                                                                         *)
(* JavaScript values are records [t, n, s, f]: t is the kind of the value, *)
(* n its number (or 0/1 for a boolean), s its string, f the own properties *)
(* of an object as a sequence of <<key, value>> entries in insertion       *)
(* order.  DOM elements are records [tag, attrs, kids, text]: attrs is the *)
(* sequence of <<name, value>> attributes, kids the child elements in      *)
(* document order, text the text node of a leaf (<<>> when there is none). *)
(***************************************************************************)
EXTENDS Integers, Sequences, FiniteSets, TLC

VARIABLES geoJson, options, pc, doc, gpx, wpts, trks, interpreted

vars == <<geoJson, options, pc, doc, gpx, wpts, trks, interpreted>>

(***************************************************************************)
(* Bounds of the model.                                                    *)
(***************************************************************************)
\* the longest FeatureCollection
MaxFeatures == 2
\* the most positions of a MultiPoint or of one line
MaxCoords == 2
\* the most position arrays of a MultiLineString
MaxSegs == 2
\* the most own properties of a feature's properties bag
MaxProps == 2

(***************************************************************************)
(* JavaScript values.                                                      *)
(***************************************************************************)
Undef == [t |-> "undefined", n |-> 0, s |-> "", f |-> <<>>]

Null == [t |-> "null", n |-> 0, s |-> "", f |-> <<>>]

Num(k) == [t |-> "number", n |-> k, s |-> "", f |-> <<>>]

Str(x) == [t |-> "string", n |-> 0, s |-> x, f |-> <<>>]

Bool(b) == [t |-> "boolean", n |-> IF b THEN 1 ELSE 0, s |-> "", f |-> <<>>]

Obj(entries) == [t |-> "object", n |-> 0, s |-> "", f |-> entries]

\* typeof v
TypeOf(v) == IF v.t = "null" THEN "object" ELSE v.t

\* the truthiness of v, as `if (v)`, `v && ...` and `!v` read it
Truthy(v) ==
  CASE v.t = "undefined" -> FALSE
    [] v.t = "null" -> FALSE
    [] v.t = "number" -> v.n # 0
    [] v.t = "string" -> v.s # ""
    [] v.t = "boolean" -> v.n = 1
    [] OTHER -> TRUE

\* String(v), also the coercion setAttribute applies to its value
JSString(v) ==
  CASE v.t = "undefined" -> "undefined"
    [] v.t = "null" -> "null"
    [] v.t = "number" -> ToString(v.n)
    [] v.t = "string" -> v.s
    [] v.t = "boolean" -> (IF v.n = 1 THEN "true" ELSE "false")
    [] OTHER -> "[object Object]"

\* v[key] of a value that is neither null nor undefined
Get(v, key) ==
  IF \E k \in 1..Len(v.f) : v.f[k][1] = key
  THEN v.f[CHOOSE k \in 1..Len(v.f) : v.f[k][1] = key][2]
  ELSE Undef

\* v.key raises a TypeError
ReadRaises(v) == v.t \in {"undefined", "null"}

\* const [lon, lat, ele, time] = position: the k-th slot
Slot(position, k) == IF k <= Len(position) THEN position[k] ELSE Undef

(***************************************************************************)
(* The DOM primitives the conversion uses.                                 *)
(***************************************************************************)
createElementWithNS(tagName) ==
  [tag |-> tagName, attrs |-> <<>>, kids |-> <<>>, text |-> <<>>]

setAttribute(el, name, value) ==
  [el EXCEPT !.attrs = Append(@, <<name, JSString(value)>>)]

appendChild(parent, child) == [parent EXCEPT !.kids = Append(@, child)]

(***************************************************************************)
(* The helpers of GeoJsonToGpx.                                            *)
(***************************************************************************)
createTagInParentElementFalsy(parent, tagName, content) ==
  IF ~Truthy(content)
  THEN parent
  ELSE appendChild(parent,
         [createElementWithNS(tagName) EXCEPT !.text = <<JSString(content)>>])

createTagInParentElement(parent, tagName, content) ==
  IF content = Undef
  THEN parent
  ELSE appendChild(parent,
         [createElementWithNS(tagName) EXCEPT !.text = <<JSString(content)>>])

\* iterates the bag's own keys and keeps the supported ones
addSupportedPropertiesInBagOrder(el, supports, properties) ==
  IF Truthy(properties) /\ TypeOf(properties) = "object"
  THEN LET bag == properties.f
           each[k \in 0..Len(bag)] ==
             IF k = 0 THEN el
             ELSE LET key == bag[k][1]
                      value == bag[k][2]
                  IN  IF /\ Truthy(value)
                         /\ TypeOf(value) = "string"
                         /\ \E j \in 1..Len(supports) : supports[j] = key
                      THEN createTagInParentElement(each[k - 1], key, value)
                      ELSE each[k - 1]
       IN  each[Len(bag)]
  ELSE el

addSupportedPropertiesFromObject(el, supports, properties) ==
  IF Truthy(properties) /\ TypeOf(properties) = "object"
  THEN LET each[k \in 0..Len(supports)] ==
             IF k = 0 THEN el
             ELSE LET key == supports[k]
                      value == Get(properties, key)
                  IN  IF /\ Truthy(value)
                         /\ TypeOf(value) = "string"
                         /\ \E j \in 1..Len(supports) : supports[j] = key
                      THEN createTagInParentElement(each[k - 1], key, value)
                      ELSE each[k - 1]
       IN  each[Len(supports)]
  ELSE el

\* props is neither null nor undefined here (the callers' typeof guards)
createLinkNoHrefCheck(parent, props) ==
  appendChild(parent,
    addSupportedPropertiesFromObject(
      setAttribute(createElementWithNS("link"), "href", Get(props, "href")),
      <<"text", "type">>, props))

createLinkInParentElement(parent, props) ==
  LET href == Get(props, "href")
  IN  IF ~Truthy(href)
      THEN parent
      ELSE appendChild(parent,
             addSupportedPropertiesFromObject(
               setAttribute(createElementWithNS("link"), "href", href),
               <<"text", "type">>, props))

createTrk(properties) ==
  addSupportedPropertiesFromObject(
    createElementWithNS("trk"), <<"name", "desc", "src", "type">>, properties)

createPtSwapped(type, position, properties) ==
  LET lon == Slot(position, 1)
      lat == Slot(position, 2)
      ele == Slot(position, 3)
      time == Slot(position, 4)
      el0 == setAttribute(setAttribute(createElementWithNS(type), "lat", lon),
                          "lon", lat)
      el1 == createTagInParentElement(el0, "ele", ele)
      el2 == createTagInParentElement(el1, "time", time)
  IN  addSupportedPropertiesFromObject(
        el2, <<"name", "desc", "src", "type">>, properties)

createPt(type, position, properties) ==
  LET lon == Slot(position, 1)
      lat == Slot(position, 2)
      ele == Slot(position, 3)
      time == Slot(position, 4)
      el0 == setAttribute(setAttribute(createElementWithNS(type), "lat", lat),
                          "lon", lon)
      el1 == createTagInParentElement(el0, "ele", ele)
      el2 == createTagInParentElement(el1, "time", time)
  IN  addSupportedPropertiesFromObject(
        el2, <<"name", "desc", "src", "type">>, properties)

\* the loop stops one position short
createTrkSegShort(coordinates) ==
  LET each[k \in 0..Len(coordinates)] ==
        IF k = 0 THEN createElementWithNS("trkseg")
        ELSE appendChild(each[k - 1], createPt("trkpt", coordinates[k], Undef))
  IN  each[IF Len(coordinates) = 0 THEN 0 ELSE Len(coordinates) - 1]

createTrkSeg(coordinates) ==
  LET each[k \in 0..Len(coordinates)] ==
        IF k = 0 THEN createElementWithNS("trkseg")
        ELSE appendChild(each[k - 1], createPt("trkpt", coordinates[k], Undef))
  IN  each[Len(coordinates)]

(***************************************************************************)
(* A geometry is [type, position, positions, lines]: its coordinates are   *)
(* read from the field its type gives them (a Position for a Point,        *)
(* Position[] for a MultiPoint or LineString, Position[][] for a           *)
(* MultiLineString or Polygon); the other fields are empty.                *)
(***************************************************************************)
\* Polygon rings read as the position arrays of a track
interpretFeaturePolygonAsTrk(feature, w, t) ==
  LET geometry == feature.geometry
      properties == feature.properties
      type == geometry.type
      segs[k \in 0..Len(geometry.lines)] ==
        IF k = 0 THEN createTrk(properties)
        ELSE appendChild(segs[k - 1], createTrkSeg(geometry.lines[k]))
  IN  CASE type \in {"Polygon", "MultiLineString"} ->
             [wpts |-> w, trks |-> Append(t, segs[Len(geometry.lines)])]
        [] type = "Point" ->
             [wpts |-> Append(w, createPt("wpt", geometry.position, properties)),
              trks |-> t]
        [] type = "MultiPoint" ->
             [wpts |-> w \o [k \in 1..Len(geometry.positions) |->
                               createPt("wpt", geometry.positions[k], properties)],
              trks |-> t]
        [] type = "LineString" ->
             [wpts |-> w,
              trks |-> Append(t, appendChild(createTrk(properties),
                                             createTrkSeg(geometry.positions)))]
        [] OTHER -> [wpts |-> w, trks |-> t]

\* the properties reach only the first wpt of a MultiPoint
interpretFeatureFirstOnly(feature, w, t) ==
  LET geometry == feature.geometry
      properties == feature.properties
      type == geometry.type
      segs[k \in 0..Len(geometry.lines)] ==
        IF k = 0 THEN createTrk(properties)
        ELSE appendChild(segs[k - 1], createTrkSeg(geometry.lines[k]))
  IN  CASE type = "Polygon" -> [wpts |-> w, trks |-> t]
        [] type = "Point" ->
             [wpts |-> Append(w, createPt("wpt", geometry.position, properties)),
              trks |-> t]
        [] type = "MultiPoint" ->
             [wpts |-> w \o [k \in 1..Len(geometry.positions) |->
                               createPt("wpt", geometry.positions[k],
                                        IF k = 1 THEN properties ELSE Undef)],
              trks |-> t]
        [] type = "LineString" ->
             [wpts |-> w,
              trks |-> Append(t, appendChild(createTrk(properties),
                                             createTrkSeg(geometry.positions)))]
        [] type = "MultiLineString" ->
             [wpts |-> w, trks |-> Append(t, segs[Len(geometry.lines)])]
        [] OTHER -> [wpts |-> w, trks |-> t]

\* every position array of a MultiLineString becomes a trk of its own
interpretFeatureTrkPerLine(feature, w, t) ==
  LET geometry == feature.geometry
      properties == feature.properties
      type == geometry.type
  IN  CASE type = "Polygon" -> [wpts |-> w, trks |-> t]
        [] type = "Point" ->
             [wpts |-> Append(w, createPt("wpt", geometry.position, properties)),
              trks |-> t]
        [] type = "MultiPoint" ->
             [wpts |-> w \o [k \in 1..Len(geometry.positions) |->
                               createPt("wpt", geometry.positions[k], properties)],
              trks |-> t]
        [] type = "LineString" ->
             [wpts |-> w,
              trks |-> Append(t, appendChild(createTrk(properties),
                                             createTrkSeg(geometry.positions)))]
        [] type = "MultiLineString" ->
             [wpts |-> w,
              trks |-> t \o [k \in 1..Len(geometry.lines) |->
                               appendChild(createTrk(properties),
                                           createTrkSeg(geometry.lines[k]))]]
        [] OTHER -> [wpts |-> w, trks |-> t]

\* the arrays wpts and trks after interpretFeature(feature), from w and t
interpretFeature(feature, w, t) ==
  LET geometry == feature.geometry
      properties == feature.properties
      type == geometry.type
      segs[k \in 0..Len(geometry.lines)] ==
        IF k = 0 THEN createTrk(properties)
        ELSE appendChild(segs[k - 1], createTrkSeg(geometry.lines[k]))
  IN  CASE type = "Polygon" -> [wpts |-> w, trks |-> t]
        [] type = "Point" ->
             [wpts |-> Append(w, createPt("wpt", geometry.position, properties)),
              trks |-> t]
        [] type = "MultiPoint" ->
             [wpts |-> w \o [k \in 1..Len(geometry.positions) |->
                               createPt("wpt", geometry.positions[k], properties)],
              trks |-> t]
        [] type = "LineString" ->
             [wpts |-> w,
              trks |-> Append(t, appendChild(createTrk(properties),
                                             createTrkSeg(geometry.positions)))]
        [] type = "MultiLineString" ->
             [wpts |-> w, trks |-> Append(t, segs[Len(geometry.lines)])]
        [] OTHER -> [wpts |-> w, trks |-> t]

(***************************************************************************)
(* The metadata block.                                                     *)
(***************************************************************************)
\* options && typeof options.metadata === 'object'
MetaDataGuard(opts) ==
  Truthy(opts) /\ TypeOf(Get(opts, "metadata")) = "object"

\* the block reads a property of null: a TypeError leaves GeoJsonToGpx
MetaDataRaises(opts) ==
  /\ MetaDataGuard(opts)
  /\ LET meta == Get(opts, "metadata")
     IN  \/ ReadRaises(meta)
         \/ /\ ~ReadRaises(meta)
            /\ \/ /\ TypeOf(Get(meta, "copyright")) = "object"
                  /\ ReadRaises(Get(meta, "copyright"))
               \/ /\ TypeOf(Get(meta, "link")) = "object"
                  /\ ReadRaises(Get(meta, "link"))

\* the metadata element of a meta that is not null
MetaDataElement(meta) ==
  LET m0 == createElementWithNS("metadata")
      m1 == createTagInParentElement(m0, "name", Get(meta, "name"))
      m2 == createTagInParentElement(m1, "desc", Get(meta, "desc"))
      person == Get(meta, "author")
      a0 == createElementWithNS("author")
      a1 == createTagInParentElement(a0, "name", Get(person, "name"))
      a2 == createTagInParentElement(a1, "email", Get(person, "email"))
      a3 == IF Truthy(Get(person, "link")) /\ TypeOf(Get(person, "link")) = "object"
            THEN createLinkInParentElement(a2, Get(person, "link"))
            ELSE a2
      m3 == IF Truthy(person) /\ TypeOf(person) = "object"
            THEN appendChild(m2, a3)
            ELSE m2
      cr == Get(meta, "copyright")
      c0 == createElementWithNS("copyright")
      c1 == IF Truthy(Get(cr, "author"))
            THEN setAttribute(c0, "author", Get(cr, "author"))
            ELSE c0
      c2 == createTagInParentElement(c1, "year", Get(cr, "year"))
      c3 == createTagInParentElement(c2, "license", Get(cr, "license"))
      m4 == IF TypeOf(cr) = "object" THEN appendChild(m3, c3) ELSE m3
      m5 == IF TypeOf(Get(meta, "link")) = "object"
            THEN createLinkInParentElement(m4, Get(meta, "link"))
            ELSE m4
      m6 == createTagInParentElement(m5, "time", Get(meta, "time"))
  IN  createTagInParentElement(m6, "keywords", Get(meta, "keywords"))

(***************************************************************************)
(* The root.                                                               *)
(***************************************************************************)
defaultPackageName == Str("@dwayneparton/geojson-to-gpx")

\* options?.creator || defaultPackageName
Creator(opts) ==
  LET given == IF ReadRaises(opts) THEN Undef ELSE Get(opts, "creator")
  IN  IF Truthy(given) THEN given ELSE defaultPackageName

instruct ==
  [tag |-> "?xml", attrs |-> <<>>, kids |-> <<>>,
   text |-> <<"version=\"1.0\" encoding=\"UTF-8\"">>]

NoElement == createElementWithNS("")

(***************************************************************************)
(* The inputs: GeoJSON values and options, drawn from bounded sets.        *)
(***************************************************************************)
SeqsUpTo(S, n) == UNION {[1..k -> S] : k \in 0..n}

PosPlain == <<Num(-109), Num(46)>>

PosEle == <<Num(102), Num(1), Num(0)>>

PosTime == <<Num(7), Num(8), Undef, Str("2023-06-03T21:46:13Z")>>

PosFull == <<Num(3), Num(4), Num(3205), Num(1685)>>

Positions == {PosPlain, PosEle, PosTime, PosFull}

LinePositions == {PosPlain, PosFull}

PropKeys == {"name", "type", "color"}

PropVals == {Str("A"), Str(""), Num(5), Bool(TRUE), Obj(<<>>)}

\* the bags of at most MaxProps own properties, no key twice
Bags ==
  {b \in SeqsUpTo(PropKeys \X PropVals, MaxProps) :
     \A j, k \in 1..Len(b) : j # k => b[j][1] # b[k][1]}

Props == {Undef, Null, Str("p"), Num(1)} \cup {Obj(b) : b \in Bags}

Named == Obj(<< <<"name", Str("A")>> >>)

FewProps == {Undef, Named}

NoGeometry == [type |-> "", position |-> <<>>, positions |-> <<>>, lines |-> <<>>]

PointGeometry(p) == [NoGeometry EXCEPT !.type = "Point", !.position = p]

MultiPointGeometry(ps) == [NoGeometry EXCEPT !.type = "MultiPoint", !.positions = ps]

LineStringGeometry(ps) == [NoGeometry EXCEPT !.type = "LineString", !.positions = ps]

MultiLineStringGeometry(ls) == [NoGeometry EXCEPT !.type = "MultiLineString", !.lines = ls]

PolygonGeometry(ls) == [NoGeometry EXCEPT !.type = "Polygon", !.lines = ls]

OtherGeometry == [NoGeometry EXCEPT !.type = "GeometryCollection"]

Feature(g, props) ==
  [type |-> "Feature", geometry |-> g, properties |-> props, features |-> <<>>]

FeatureCollection(fs) ==
  [type |-> "FeatureCollection", geometry |-> NoGeometry, properties |-> Undef,
   features |-> fs]

\* a bare geometry handed to GeoJsonToGpx: neither case of its switch
BareGeometry ==
  [type |-> "Point", geometry |-> PointGeometry(PosPlain), properties |-> Undef,
   features |-> <<>>]

Ring == <<PosPlain, PosEle, PosFull, PosPlain>>

RichFeatures ==
  {Feature(PointGeometry(PosPlain), p) : p \in Props}
  \cup {Feature(LineStringGeometry(<<PosPlain>>), p) : p \in Props}
  \cup {Feature(PointGeometry(x), p) : x \in Positions, p \in FewProps}
  \cup {Feature(MultiPointGeometry(x), p) :
          x \in SeqsUpTo(Positions, MaxCoords), p \in FewProps}
  \cup {Feature(LineStringGeometry(x), p) :
          x \in SeqsUpTo(Positions, MaxCoords), p \in FewProps}
  \cup {Feature(MultiLineStringGeometry(x), p) :
          x \in SeqsUpTo(SeqsUpTo(LinePositions, MaxCoords), MaxSegs),
          p \in FewProps}
  \cup {Feature(PolygonGeometry(x), p) : x \in {<<>>, <<Ring>>}, p \in FewProps}
  \cup {Feature(OtherGeometry, p) : p \in FewProps}

SmallFeatures ==
  {Feature(PointGeometry(PosPlain), Named),
   Feature(PointGeometry(PosEle), Undef),
   Feature(MultiPointGeometry(<<PosTime, PosFull>>), Named),
   Feature(LineStringGeometry(<<PosPlain, PosEle>>), Named),
   Feature(LineStringGeometry(<<PosFull>>), Undef),
   Feature(MultiLineStringGeometry(<< <<PosPlain>>, <<PosTime, PosFull>> >>), Named),
   Feature(PolygonGeometry(<<Ring>>), Named),
   Feature(OtherGeometry, Named)}

Collections == {FeatureCollection(fs) : fs \in SeqsUpTo(SmallFeatures, MaxFeatures)}

FewGeo ==
  {Feature(PointGeometry(PosFull), Named),
   Feature(PolygonGeometry(<<Ring>>), Named),
   FeatureCollection(<<Feature(LineStringGeometry(<<PosPlain, PosEle>>), Named),
                       Feature(PointGeometry(PosTime), Undef)>>)}

Link(href, text, type) ==
  Obj(<< <<"href", href>>, <<"text", text>>, <<"type", type>> >>)

LinkObjs ==
  {Link(h, x, y) : h \in {Undef, Str(""), Str("http://h"), Num(0)},
                   x \in {Undef, Str("T"), Num(1)},
                   y \in {Undef, Str("Y")}}
  \cup {Obj(<< <<"type", Str("Y")>>, <<"text", Str("T")>>, <<"href", h>> >>) :
          h \in {Undef, Str("http://h")}}

LinkVals == {Undef, Null, Str("l"), Bool(TRUE)} \cup LinkObjs

AuthorLinkVals ==
  {Undef, Null, Str("l")}
  \cup {Link(h, x, Undef) : h \in {Undef, Str(""), Str("http://h")},
                            x \in {Undef, Str("T")}}

Person(name, email, link) ==
  Obj(<< <<"name", name>>, <<"email", email>>, <<"link", link>> >>)

Copyright(author, year, license) ==
  Obj(<< <<"author", author>>, <<"year", year>>, <<"license", license>> >>)

MetaData(name, desc, author, copyright, link, time, keywords) ==
  Obj(<< <<"name", name>>, <<"desc", desc>>, <<"author", author>>,
         <<"copyright", copyright>>, <<"link", link>>, <<"time", time>>,
         <<"keywords", keywords>> >>)

MetaVals ==
  {Undef, Null, Str("m"), Num(1), Bool(TRUE)}
  \cup {MetaData(n, d, Undef, Undef, Undef, x, k) :
          n \in {Undef, Str("N"), Str(""), Num(5), Null},
          d \in {Undef, Str("D")}, x \in {Undef, Str("2024-01-01")},
          k \in {Undef, Str("K")}}
  \cup {MetaData(Undef, Undef, a, Undef, Undef, Undef, Undef) :
          a \in {Null, Str("a"), Num(1)}
                \cup {Person(n, e, l) : n \in {Undef, Str("AN")},
                                        e \in {Undef, Str("AE")},
                                        l \in AuthorLinkVals}}
  \cup {MetaData(Undef, Undef, Undef, c, Undef, Undef, Undef) :
          c \in {Null, Str("c"), Bool(FALSE)}
                \cup {Copyright(a, y, l) : a \in {Undef, Str(""), Str("CA")},
                                           y \in {Undef, Str("2024"), Num(2024)},
                                           l \in {Undef, Str("L")}}}
  \cup {MetaData(Str("N"), Undef, Undef, Undef, l, Str("2024-01-01"), Undef) :
          l \in LinkVals}

Options(creator, metadata) ==
  Obj(<< <<"creator", creator>>, <<"metadata", metadata>> >>)

RichOptions ==
  {Undef, Null}
  \cup {Options(Undef, m) : m \in MetaVals}
  \cup {Options(c, Undef) : c \in {Str("test"), Str("")}}

FewOptions ==
  {Undef,
   Options(Str("test"),
           MetaData(Str("N"), Undef, Undef, Undef, Undef, Undef, Undef)),
   Options(Undef, Str("m")),
   Options(Undef, Null)}

Inputs ==
  (FewGeo \X RichOptions)
  \cup ((RichFeatures \cup {BareGeometry}) \X {Undef})
  \cup (Collections \X FewOptions)

(***************************************************************************)
(* The state machine: one call of GeoJsonToGpx(geoJson, options).          *)
(***************************************************************************)
Init ==
  /\ \E in \in Inputs : geoJson = in[1] /\ options = in[2]
  /\ pc = "start"
  /\ doc = <<>>
  /\ gpx = NoElement
  /\ wpts = <<>>
  /\ trks = <<>>
  /\ interpreted = 0

\* the document, its processing instruction, the gpx element and the arrays
CreateRoot ==
  /\ pc = "start"
  /\ doc' = <<instruct>>
  /\ gpx' = setAttribute(setAttribute(createElementWithNS("gpx"),
                                      "version", Str("1.1")),
                         "creator", Creator(options))
  /\ wpts' = <<>>
  /\ trks' = <<>>
  /\ pc' = "metadata"
  /\ UNCHANGED <<geoJson, options, interpreted>>

\* the metadata block is skipped
SkipMetaData ==
  /\ pc = "metadata"
  /\ ~MetaDataGuard(options)
  /\ pc' = "process"
  /\ UNCHANGED <<geoJson, options, doc, gpx, wpts, trks, interpreted>>

\* the metadata block reads a property of null
RaiseInMetaData ==
  /\ pc = "metadata"
  /\ MetaDataRaises(options)
  /\ pc' = "raised"
  /\ UNCHANGED <<geoJson, options, doc, gpx, wpts, trks, interpreted>>

AddMetaData ==
  /\ pc = "metadata"
  /\ MetaDataGuard(options)
  /\ ~MetaDataRaises(options)
  /\ gpx' = appendChild(gpx, MetaDataElement(Get(options, "metadata")))
  /\ pc' = "process"
  /\ UNCHANGED <<geoJson, options, doc, wpts, trks, interpreted>>

\* case 'Feature'
ProcessFeature ==
  /\ pc = "process"
  /\ geoJson.type = "Feature"
  /\ interpreted = 0
  /\ LET r == interpretFeature(geoJson, wpts, trks)
     IN  wpts' = r.wpts /\ trks' = r.trks
  /\ interpreted' = 1
  /\ UNCHANGED <<geoJson, options, pc, doc, gpx>>

\* case 'FeatureCollection': one turn of features.forEach
ProcessCollectionFeature ==
  /\ pc = "process"
  /\ geoJson.type = "FeatureCollection"
  /\ interpreted < Len(geoJson.features)
  /\ LET r == interpretFeature(geoJson.features[interpreted + 1], wpts, trks)
     IN  wpts' = r.wpts /\ trks' = r.trks
  /\ interpreted' = interpreted + 1
  /\ UNCHANGED <<geoJson, options, pc, doc, gpx>>

\* the features the switch on geoJson.type interprets
ToInterpret ==
  CASE geoJson.type = "Feature" -> 1
    [] geoJson.type = "FeatureCollection" -> Len(geoJson.features)
    [] OTHER -> 0

\* the trks are appended before the wpts
FlushTrksFirst ==
  /\ pc = "process"
  /\ interpreted = ToInterpret
  /\ gpx' = [gpx EXCEPT !.kids = @ \o trks \o wpts]
  /\ doc' = Append(doc, gpx')
  /\ pc' = "done"
  /\ UNCHANGED <<geoJson, options, wpts, trks, interpreted>>

\* the wpts, then the trks, are appended to gpx, and gpx to the document
Flush ==
  /\ pc = "process"
  /\ interpreted = ToInterpret
  /\ gpx' = [gpx EXCEPT !.kids = @ \o wpts \o trks]
  /\ doc' = Append(doc, gpx')
  /\ pc' = "done"
  /\ UNCHANGED <<geoJson, options, wpts, trks, interpreted>>

Next ==
  \/ CreateRoot
  \/ SkipMetaData
  \/ RaiseInMetaData
  \/ AddMetaData
  \/ ProcessFeature
  \/ ProcessCollectionFeature
  \/ Flush

Spec == Init /\ [][Next]_vars

(***************************************************************************)
(* What the properties below read off the inputs and off the output tree.  *)
(***************************************************************************)
\* the features GeoJsonToGpx traverses, in order
Features ==
  CASE geoJson.type = "Feature" -> <<geoJson>>
    [] geoJson.type = "FeatureCollection" -> geoJson.features
    [] OTHER -> <<>>

Flat(ss) ==
  LET f[k \in 0..Len(ss)] == IF k = 0 THEN <<>> ELSE f[k - 1] \o ss[k]
  IN  f[Len(ss)]

Range(q) == {q[k] : k \in 1..Len(q)}

KidsTagged(el, tag) == SelectSeq(el.kids, LAMBDA k : k.tag = tag)

TagsOf(q) == [k \in 1..Len(q) |-> q[k].tag]

Repeat(x, n) == [k \in 1..n |-> x]

HasAttr(el, name) == \E k \in 1..Len(el.attrs) : el.attrs[k][1] = name

Attr(el, name) ==
  el.attrs[CHOOSE k \in 1..Len(el.attrs) : el.attrs[k][1] = name][2]

\* the lat and lon attributes of a wpt or trkpt
LatLon(el) == <<Attr(el, "lat"), Attr(el, "lon")>>

\* the string forms of coordinates[1] (latitude) and coordinates[0] (longitude)
LatLonOf(position) == <<JSString(position[2]), JSString(position[1])>>

\* a leaf element: a tag holding one text node
Leaf(tag, content) == [tag |-> tag, attrs |-> <<>>, kids |-> <<>>, text |-> <<content>>]

\* el has no child `tag` when the source value is undefined, and otherwise one,
\* holding the string form of the value
LeafIff(el, tag, source) ==
  IF source = Undef
  THEN KidsTagged(el, tag) = <<>>
  ELSE KidsTagged(el, tag) = <<Leaf(tag, JSString(source))>>

\* a wpt or trkpt built from position: lat, lon, and ele and time from the
\* 3rd and 4th slots
BuiltFrom(el, position) ==
  /\ el.attrs = << <<"lat", JSString(position[2])>>, <<"lon", JSString(position[1])>> >>
  /\ LeafIff(el, "ele", IF Len(position) >= 3 THEN position[3] ELSE Undef)
  /\ LeafIff(el, "time", IF Len(position) >= 4 THEN position[4] ELSE Undef)

\* the children of a wpt, trkpt or trk that come from the properties bag
PropLeaves(el) == SelectSeq(el.kids, LAMBDA k : k.tag \notin {"ele", "time", "trkseg"})

IsBag(v) == v.t = "object"

\* the whitelisted keys, in whitelist order, that the bag gives a value Keep accepts
LeavesOf(whitelist, props, Keep(_)) ==
  IF IsBag(props)
  THEN LET kept == SelectSeq(whitelist,
                     LAMBDA key : \E k \in 1..Len(props.f) :
                                    props.f[k][1] = key /\ Keep(props.f[k][2]))
       IN  [k \in 1..Len(kept) |->
              Leaf(kept[k],
                   props.f[CHOOSE j \in 1..Len(props.f) : props.f[j][1] = kept[k]][2].s)]
  ELSE <<>>

StringTyped(v) == v.t = "string"

NonEmptyString(v) == v.t = "string" /\ v.s # ""

PtKeys == <<"name", "desc", "src", "type">>

LinkKeys == <<"text", "type">>

\* every element of the tree under gpx
Elements ==
  LET l1 == Range(gpx.kids)
      l2 == UNION {Range(e.kids) : e \in l1}
      l3 == UNION {Range(e.kids) : e \in l2}
      l4 == UNION {Range(e.kids) : e \in l3}
  IN  {gpx} \cup l1 \cup l2 \cup l3 \cup l4

\* options.metadata, undefined when options has none
Meta == IF IsBag(options) THEN Get(options, "metadata") ELSE Undef

\* options.metadata is configured: an object
MetaConfigured == IsBag(Meta)

Returned == pc = "done" /\ doc = <<instruct, gpx>>

SingleFeature(type) ==
  pc = "done" /\ geoJson.type = "Feature" /\ geoJson.geometry.type = type

Supported(feature) ==
  feature.geometry.type \in {"Point", "MultiPoint", "LineString", "MultiLineString"}

\* the positions the wpts come from, in traversal order
WptPositions(fs) ==
  Flat([k \in 1..Len(fs) |->
          CASE fs[k].geometry.type = "Point" -> <<fs[k].geometry.position>>
            [] fs[k].geometry.type = "MultiPoint" -> fs[k].geometry.positions
            [] OTHER -> <<>>])

\* the position arrays each trk comes from, in traversal order
TrkLines(fs) ==
  Flat([k \in 1..Len(fs) |->
          CASE fs[k].geometry.type = "LineString" -> << <<fs[k].geometry.positions>> >>
            [] fs[k].geometry.type = "MultiLineString" -> <<fs[k].geometry.lines>>
            [] OTHER -> <<>>])

\* the lat and lon of every trkpt of every trkseg of a trk
TrkShape(trk) ==
  LET segs == KidsTagged(trk, "trkseg")
  IN  [j \in 1..Len(segs) |-> [k \in 1..Len(segs[j].kids) |-> LatLon(segs[j].kids[k])]]

LinesShape(lines) ==
  [j \in 1..Len(lines) |-> [k \in 1..Len(lines[j]) |-> LatLonOf(lines[j][k])]]

(***************************************************************************)
(* C1.  In the children of the returned gpx root, metadata (when           *)
(* options.metadata is configured) is the first child, every wpt precedes  *)
(* every trk, and the wpts and the trks each follow the feature traversal  *)
(* order (inside a MultiPoint, the coordinate array order), whatever the   *)
(* interleaving of the features.                                           *)
(***************************************************************************)
C1_ChildOrder ==
  pc = "done" =>
    LET sources == WptPositions(Features)
        lines == TrkLines(Features)
        w == KidsTagged(gpx, "wpt")
        t == KidsTagged(gpx, "trk")
    IN  /\ TagsOf(gpx.kids) = (IF MetaConfigured THEN <<"metadata">> ELSE <<>>)
                                \o Repeat("wpt", Len(sources))
                                \o Repeat("trk", Len(lines))
        /\ [k \in 1..Len(w) |-> LatLon(w[k])]
             = [k \in 1..Len(sources) |-> LatLonOf(sources[k])]
        /\ [k \in 1..Len(t) |-> TrkShape(t[k])]
             = [k \in 1..Len(lines) |-> LinesShape(lines[k])]

\* a collection of a LineString then a Point, converted with metadata
C1_Witness ==
  /\ pc = "done"
  /\ MetaConfigured
  /\ Len(Features) = 2
  /\ Features[1].geometry.type = "LineString"
  /\ Features[2].geometry.type = "Point"
  /\ TagsOf(gpx.kids) = <<"metadata", "wpt", "trk">>

(***************************************************************************)
(* C2.  A feature whose geometry type is Polygon or unrecognized never     *)
(* makes the conversion raise and adds no wpt and no trk: the wpts and     *)
(* trks are those of the collection without the unsupported features, and  *)
(* the document is returned.                                               *)
(***************************************************************************)
WithoutUnsupported(fs) ==
  LET kept == SelectSeq(fs, Supported)
      run[k \in 0..Len(kept)] ==
        IF k = 0 THEN [wpts |-> <<>>, trks |-> <<>>]
        ELSE interpretFeature(kept[k], run[k - 1].wpts, run[k - 1].trks)
  IN  run[Len(kept)]

C2_UnsupportedOmitted ==
  /\ pc = "raised" => interpreted = 0
  /\ pc \in {"process", "done"} =>
       LET r == WithoutUnsupported(SubSeq(Features, 1, interpreted))
       IN  wpts = r.wpts /\ trks = r.trks
  /\ pc = "done" =>
       /\ Returned
       /\ KidsTagged(gpx, "wpt") = WithoutUnsupported(Features).wpts
       /\ KidsTagged(gpx, "trk") = WithoutUnsupported(Features).trks
       /\ (\A k \in 1..Len(Features) : ~Supported(Features[k])) =>
            KidsTagged(gpx, "wpt") = <<>> /\ KidsTagged(gpx, "trk") = <<>>

\* a Polygon and a supported feature converted together
C2_Witness ==
  /\ Returned
  /\ Len(Features) = 2
  /\ Features[1].geometry.type = "Polygon"
  /\ Supported(Features[2])
  /\ Len(wpts) + Len(trks) = 1

(***************************************************************************)
(* C3.  A Point feature converted on its own gives exactly one wpt and no  *)
(* trk, with lat the string form of coordinates[1] and lon the string form *)
(* of coordinates[0].                                                      *)
(***************************************************************************)
C3_PointToWpt ==
  SingleFeature("Point") =>
    /\ Len(KidsTagged(gpx, "wpt")) = 1
    /\ KidsTagged(gpx, "trk") = <<>>
    /\ LET w == KidsTagged(gpx, "wpt")[1]
       IN  /\ HasAttr(w, "lat") /\ HasAttr(w, "lon")
           /\ Attr(w, "lat") = JSString(geoJson.geometry.position[2])
           /\ Attr(w, "lon") = JSString(geoJson.geometry.position[1])

\* the Point [-109, 46] converted: lat="46" lon="-109"
C3_Witness ==
  /\ SingleFeature("Point")
  /\ geoJson.geometry.position = PosPlain
  /\ LatLon(KidsTagged(gpx, "wpt")[1]) = <<"46", "-109">>

(***************************************************************************)
(* C4.  A MultiPoint feature with N coordinates (N >= 0) gives exactly N   *)
(* wpts, the i-th built from the i-th coordinate, all of them carrying the *)
(* same property leaves, those of the feature's properties bag.            *)
(***************************************************************************)
C4_MultiPointToWpts ==
  SingleFeature("MultiPoint") =>
    LET w == KidsTagged(gpx, "wpt")
        coords == geoJson.geometry.positions
    IN  /\ Len(w) = Len(coords)
        /\ KidsTagged(gpx, "trk") = <<>>
        /\ \A i \in 1..Len(w) :
             /\ BuiltFrom(w[i], coords[i])
             /\ PropLeaves(w[i]) = PropLeaves(w[1])
             /\ PropLeaves(w[i]) = LeavesOf(PtKeys, geoJson.properties, NonEmptyString)

\* two named waypoints from one MultiPoint
C4_Witness ==
  /\ SingleFeature("MultiPoint")
  /\ geoJson.geometry.positions = <<PosTime, PosFull>>
  /\ geoJson.properties = Named
  /\ Len(KidsTagged(gpx, "wpt")) = 2
  /\ PropLeaves(KidsTagged(gpx, "wpt")[2]) = <<Leaf("name", "A")>>

(***************************************************************************)
(* C5.  A LineString feature gives exactly one trk with exactly one trkseg *)
(* child, which has as many trkpt children as the feature has coordinates, *)
(* the i-th built from the i-th coordinate; no trkpt carries a property    *)
(* leaf of the feature.                                                    *)
(***************************************************************************)
C5_LineStringToTrk ==
  SingleFeature("LineString") =>
    LET t == KidsTagged(gpx, "trk")
        coords == geoJson.geometry.positions
    IN  /\ Len(t) = 1
        /\ KidsTagged(gpx, "wpt") = <<>>
        /\ Len(KidsTagged(t[1], "trkseg")) = 1
        /\ LET seg == KidsTagged(t[1], "trkseg")[1]
           IN  /\ TagsOf(seg.kids) = Repeat("trkpt", Len(coords))
               /\ \A i \in 1..Len(seg.kids) :
                    /\ BuiltFrom(seg.kids[i], coords[i])
                    /\ PropLeaves(seg.kids[i]) = <<>>

\* a named LineString of two positions
C5_Witness ==
  /\ SingleFeature("LineString")
  /\ geoJson.geometry.positions = <<PosPlain, PosEle>>
  /\ geoJson.properties = Named
  /\ Len(KidsTagged(gpx, "trk")[1].kids) = 2

(***************************************************************************)
(* C6.  A MultiLineString feature with M position arrays (M >= 0) gives    *)
(* exactly one trk with exactly M trkseg children in input order, the j-th *)
(* holding as many trkpts as the j-th array has positions; in the trk the  *)
(* property leaves all precede the trkseg children.                        *)
(***************************************************************************)
C6_MultiLineStringToTrk ==
  SingleFeature("MultiLineString") =>
    LET t == KidsTagged(gpx, "trk")
        lines == geoJson.geometry.lines
    IN  /\ Len(t) = 1
        /\ KidsTagged(gpx, "wpt") = <<>>
        /\ LET segs == KidsTagged(t[1], "trkseg")
           IN  /\ Len(segs) = Len(lines)
               /\ \A j \in 1..Len(segs) :
                    /\ TagsOf(segs[j].kids) = Repeat("trkpt", Len(lines[j]))
                    /\ \A i \in 1..Len(segs[j].kids) :
                         BuiltFrom(segs[j].kids[i], lines[j][i])
               /\ t[1].kids = PropLeaves(t[1]) \o segs

\* a named MultiLineString of a line of two positions and a line of one
C6_Witness ==
  /\ SingleFeature("MultiLineString")
  /\ geoJson.geometry.lines = << <<PosPlain, PosFull>>, <<PosFull>> >>
  /\ geoJson.properties = Named
  /\ TagsOf(KidsTagged(gpx, "trk")[1].kids) = <<"name", "trkseg", "trkseg">>

(***************************************************************************)
(* C7.  A Link object (options.metadata.link, options.metadata.author.link)*)
(* whose href is empty or undefined produces no link element anywhere in   *)
(* the tree, even with text or type set; every link element of the tree    *)
(* has a non-empty href attribute.                                         *)
(***************************************************************************)
NoHref(link) == Get(link, "href") \in {Undef, Str("")}

\* the Link objects of the options
LinkObjects ==
  IF MetaConfigured
  THEN {l \in {Get(Meta, "link"), Get(Get(Meta, "author"), "link")} : IsBag(l)}
  ELSE {}

C7_LinkNeedsHref ==
  /\ \A e \in Elements : e.tag = "link" => HasAttr(e, "href") /\ Attr(e, "href") # ""
  /\ (\A l \in LinkObjects : NoHref(l)) => \A e \in Elements : e.tag # "link"

\* a metadata link with text and an empty href, converted
C7_Witness ==
  /\ Returned
  /\ MetaConfigured
  /\ IsBag(Get(Meta, "link"))
  /\ Get(Get(Meta, "link"), "href") = Str("")
  /\ Get(Get(Meta, "link"), "text") = Str("T")
  /\ KidsTagged(gpx, "metadata") # <<>>

(***************************************************************************)
(* C8.  The leaf of an optional field (ele and time of a position; name,   *)
(* desc, time and keywords of metadata; name and email of author; year and *)
(* license of copyright) is emitted only when its source value is defined, *)
(* and then holds the string form of the value; an undefined or missing    *)
(* value gives no tag.  ele and time are decided independently by the 3rd  *)
(* and 4th slots of the position.                                          *)
(***************************************************************************)
\* the elements built from positions, each with its position, in order
PointsAndSources ==
  LET trkpts == Flat([k \in 1..Len(trks) |->
                        Flat([j \in 1..Len(KidsTagged(trks[k], "trkseg")) |->
                                KidsTagged(trks[k], "trkseg")[j].kids])])
      sources == Flat(Flat(TrkLines(SubSeq(Features, 1, interpreted))))
      wsources == WptPositions(SubSeq(Features, 1, interpreted))
  IN  [els |-> wpts \o trkpts, from |-> wsources \o sources]

C8_OptionalLeaves ==
  /\ LET p == PointsAndSources
     IN  /\ Len(p.els) = Len(p.from)
         /\ \A k \in 1..Len(p.els) :
              /\ LeafIff(p.els[k], "ele", IF Len(p.from[k]) >= 3 THEN p.from[k][3] ELSE Undef)
              /\ LeafIff(p.els[k], "time", IF Len(p.from[k]) >= 4 THEN p.from[k][4] ELSE Undef)
  /\ (pc \in {"process", "done"} /\ MetaConfigured) =>
       LET md == gpx.kids[1]
           person == Get(Meta, "author")
           cr == Get(Meta, "copyright")
       IN  /\ md.tag = "metadata"
           /\ LeafIff(md, "name", Get(Meta, "name"))
           /\ LeafIff(md, "desc", Get(Meta, "desc"))
           /\ LeafIff(md, "time", Get(Meta, "time"))
           /\ LeafIff(md, "keywords", Get(Meta, "keywords"))
           /\ IsBag(person) =>
                /\ Len(KidsTagged(md, "author")) = 1
                /\ LeafIff(KidsTagged(md, "author")[1], "name", Get(person, "name"))
                /\ LeafIff(KidsTagged(md, "author")[1], "email", Get(person, "email"))
           /\ IsBag(cr) =>
                /\ Len(KidsTagged(md, "copyright")) = 1
                /\ LeafIff(KidsTagged(md, "copyright")[1], "year", Get(cr, "year"))
                /\ LeafIff(KidsTagged(md, "copyright")[1], "license", Get(cr, "license"))

\* a Point whose 3rd slot is undefined and whose 4th is not: time without ele
C8_Witness ==
  /\ SingleFeature("Point")
  /\ geoJson.geometry.position = PosTime
  /\ TagsOf(KidsTagged(gpx, "wpt")[1].kids) = <<"time">>

(***************************************************************************)
(* C9.  The property leaves of a wpt, trk or link are exactly the          *)
(* whitelisted keys (name, desc, src, type; text, type for a link) whose   *)
(* value in the bag is a non-empty string, in whitelist order whatever the *)
(* bag's own key order; other keys, and whitelisted keys with an empty     *)
(* string or a numeric, boolean or object value, give no leaf; properties  *)
(* that are not an object give no leaf at all.                             *)
(***************************************************************************)
\* the link elements of the tree paired with the Link objects they come from
LinksAsBuilt(Keep(_)) ==
  (pc \in {"process", "done"} /\ MetaConfigured) =>
    LET md == gpx.kids[1]
        link == Get(Meta, "link")
        person == Get(Meta, "author")
    IN  /\ \A k \in 1..Len(KidsTagged(md, "link")) :
             KidsTagged(md, "link")[k].kids = LeavesOf(LinkKeys, link, Keep)
        /\ \A a \in 1..Len(KidsTagged(md, "author")) :
             \A k \in 1..Len(KidsTagged(KidsTagged(md, "author")[a], "link")) :
               KidsTagged(KidsTagged(md, "author")[a], "link")[k].kids
                 = LeavesOf(LinkKeys, Get(person, "link"), Keep)

LeavesAsBuilt(Keep(_)) ==
  /\ SingleFeature("Point") =>
       PropLeaves(KidsTagged(gpx, "wpt")[1]) = LeavesOf(PtKeys, geoJson.properties, Keep)
  /\ SingleFeature("LineString") =>
       PropLeaves(KidsTagged(gpx, "trk")[1]) = LeavesOf(PtKeys, geoJson.properties, Keep)
  /\ LinksAsBuilt(Keep)

C9_WhitelistedNonEmptyStrings == LeavesAsBuilt(NonEmptyString)

\* the claim as stated: every string-typed value gives a leaf
C9_WhitelistedStrings == LeavesAsBuilt(StringTyped)

\* a bag listing type before name: the leaves are name, then type
C9_Witness ==
  /\ SingleFeature("Point")
  /\ IsBag(geoJson.properties)
  /\ geoJson.properties.f = << <<"type", Str("A")>>, <<"name", Str("A")>> >>
  /\ PropLeaves(KidsTagged(gpx, "wpt")[1]) = <<Leaf("name", "A"), Leaf("type", "A")>>

(***************************************************************************)
(* C10.  A value of options.metadata, of its author, copyright or link     *)
(* that is not an object (undefined, null or a scalar) makes the           *)
(* conversion skip that sub-tree: no element is created for it and the     *)
(* document is returned without an error.                                  *)
(***************************************************************************)
NonObject(v) == v.t # "object"

C10_NonObjectSkipped ==
  /\ (IsBag(options) /\ NonObject(Meta)) =>
       /\ pc # "raised"
       /\ \A e \in Elements : e.tag # "metadata"
  /\ MetaConfigured =>
       /\ NonObject(Get(Meta, "author")) =>
            pc # "raised" /\ \A e \in Elements : e.tag # "author"
       /\ NonObject(Get(Meta, "copyright")) =>
            pc # "raised" /\ \A e \in Elements : e.tag # "copyright"
       /\ (NonObject(Get(Meta, "link")) /\ NonObject(Get(Get(Meta, "author"), "link"))) =>
            pc # "raised" /\ \A e \in Elements : e.tag # "link"

====
